---- MODULE Spec2Model ----
(***************************************************************************)
(* A model of advanced-vector/vector.h: RawMemory<T> (an arena of raw,     *)
(* uninitialized slots) and Vector<T> (the growable array on top of it).   *)
(*                                                                         *)
(* The heap is a pool of blocks; a block is a sequence of slots, and a     *)
(* slot is Uninit, a value, or MovedFrom (a constructed object that has    *)
(* been the source of a move).  Every operation of Vector is one action.   *)
(* An action draws a failure point f: the f-th operation of the call that  *)
(* is able to throw (an allocation, a constructor, a copy, a move of a     *)
(* type whose move is not noexcept) throws; f = 0 means nothing throws.    *)
(* A throwing element operation leaves its operands as they were.          *)
(***************************************************************************)
EXTENDS Integers, Sequences, FiniteSets, TLC

\* ---------------------------------------------------------------- bounds
MaxCap == 4          \* largest capacity a lone container is driven to
PairCap == 2         \* largest capacity when two containers are live
MaxVal == 1          \* element values are 0..MaxVal
NumBlocks == 3       \* blocks the allocator can hand out at the same time

Vecs == {"a", "b"}
Blocks == 1..NumBlocks
NullBlock == 0       \* nullptr: the buffer_ of an arena of capacity 0

Uninit == -1         \* a slot holding no object
MovedFrom == -2      \* a constructed object in its moved-from state
DefaultVal == 0      \* T(): the value-initialized element
Elem == 0..MaxVal

VARIABLES heap, vec, T, last, halted

vars == <<heap, vec, T, last, halted>>

Max(x, y) == IF x >= y THEN x ELSE y
Min(x, y) == IF x <= y THEN x ELSE y

\* ----------------------------------------------------- the running call
\* The state a call works on: the heap h, the containers v, the failure
\* point f, the number k of throwing-capable operations done so far, exc
\* (an exception is propagating), fault (undefined behaviour met), leak (a
\* block was released with constructed objects still in it) and reloc (the
\* number of elements relocated into a new arena); tmp is the arena a call
\* holds as a local variable (new_data), grew says that the container's
\* arena was replaced, ret is the iterator the call returns.
NullArena == [buf |-> NullBlock, cap |-> 0]

Begin(f) ==
    [h |-> heap, v |-> vec, T |-> T, f |-> f, k |-> 0, exc |-> FALSE,
     fault |-> "none", leak |-> FALSE, reloc |-> 0, grew |-> FALSE,
     tmp |-> NullArena, ret |-> [buf |-> NullBlock, off |-> 0]]

\* One operation that may throw: it throws when it is the f-th.
Try(m) == [m EXCEPT !.k = @ + 1, !.exc = (m.k + 1 = m.f)]

\* A move of T throws only when T's move is not noexcept.
TryMove(m) == IF m.T.nothrowMove THEN m ELSE Try(m)

\* Touching the storage of a block that has been released is undefined.
Touch(m, b) ==
    IF m.h[b].st = "live" \/ m.fault # "none" THEN m
    ELSE [m EXCEPT !.fault = "use_after_free"]

Rd(m, b, i) == m.h[b].slots[i + 1]
Wr(m, b, i, x) == [Touch(m, b) EXCEPT !.h[b].slots[i + 1] = x]


\* ------------------------------------------------------------ RawMemory
HasFreeBlock == \E b \in Blocks : heap[b].st = "free"

FreeBlock(m) ==
    CHOOSE b \in Blocks :
        /\ m.h[b].st = "free"
        /\ \A c \in Blocks : m.h[c].st = "free" => b <= c

\* RawMemory(size_t capacity) into the local arena: Allocate(n) returns
\* nullptr for n = 0 and otherwise asks operator new, which may throw.
RawMemoryCtor(m, n) ==
    IF n = 0 THEN [m EXCEPT !.tmp = NullArena]
    ELSE LET t == Try(m) IN
         IF t.exc THEN t
         ELSE LET b == FreeBlock(t) IN
              [t EXCEPT !.tmp = [buf |-> b, cap |-> n],
                        !.h[b] = [st |-> "live", slots |-> [i \in 1..n |-> Uninit]]]

\* operator delete(buf): releases the block; no destructor runs, so
\* objects still constructed in it are abandoned.  Releasing a block that
\* is already released is undefined.
Deallocate(m, b) ==
    IF b = NullBlock THEN m
    ELSE [m EXCEPT
            !.h[b] = [st |-> "free", slots |-> <<>>],
            !.leak = @ \/ (\E i \in DOMAIN m.h[b].slots : m.h[b].slots[i] # Uninit),
            !.fault = IF m.h[b].st # "live" /\ @ = "none" THEN "double_free" ELSE @]

\* ~RawMemory() of the local arena.
RawMemoryDtor(m) == [Deallocate(m, m.tmp.buf) EXCEPT !.tmp = NullArena]

\* RawMemory(RawMemory&& other) noexcept: buffer_ and capacity_ are taken
\* with std::exchange; the result is the new arena and what is left of other.
RawMemoryMoveCtor(other) == [self |-> other, rhs |-> NullArena]

\* RawMemory& operator=(RawMemory&& rhs) noexcept: if (this != &rhs) Swap(rhs).
\* An arena assigned to itself is as it was, which the exchange of two equal
\* records gives too.
RawMemoryMoveAssign(self, rhs) == [self |-> rhs, rhs |-> self]

\* data_.Swap(new_data): buffer_ and capacity_ change places.
RawMemorySwap(m, v) ==
    [m EXCEPT !.v[v].data = m.tmp, !.tmp = m.v[v].data, !.grew = TRUE]

\* RawMemory::operator[] on the arena of container v: assert(index < capacity_)
IndexAssert(m, v, i) ==
    IF i < m.v[v].data.cap \/ m.fault # "none" THEN m ELSE [m EXCEPT !.fault = "assert"]

\* RawMemory::operator+ on the arena of container v: assert(offset <= capacity_)
OffsetAssert(m, v, o) ==
    IF o <= m.v[v].data.cap \/ m.fault # "none" THEN m ELSE [m EXCEPT !.fault = "assert"]

\* ------------------------------------------- the <memory> algorithms
DestroyN(m, b, o, n) ==
    IF n = 0 THEN m
    ELSE [Touch(m, b) EXCEPT
            !.h[b].slots = [j \in DOMAIN m.h[b].slots |->
                              IF (j - 1) \in o..(o + n - 1) THEN Uninit
                              ELSE m.h[b].slots[j]]]

\* A copy loop with no rollback: the copies made before the throw stay.
RECURSIVE UninitCopyNoRollback(_, _, _, _, _, _, _)
UninitCopyNoRollback(m, sb, s0, n, db, d0, i) ==
    IF i = n THEN m
    ELSE LET t == Try(m) IN
         IF t.exc THEN t
         ELSE UninitCopyNoRollback(Wr(Touch(t, sb), db, d0 + i, Rd(t, sb, s0 + i)),
                                   sb, s0, n, db, d0, i + 1)

\* std::uninitialized_copy_n: copy-constructs n objects; when a copy throws
\* the objects constructed so far are destroyed.
RECURSIVE UninitCopy(_, _, _, _, _, _, _)
UninitCopy(m, sb, s0, n, db, d0, i) ==
    IF i = n THEN m
    ELSE LET t == Try(m) IN
         IF t.exc THEN DestroyN(t, db, d0, i)
         ELSE UninitCopy(Wr(Touch(t, sb), db, d0 + i, Rd(t, sb, s0 + i)),
                         sb, s0, n, db, d0, i + 1)

\* std::uninitialized_move_n: as above by move construction; the sources
\* already moved stay moved-from when a later move throws.
RECURSIVE UninitMove(_, _, _, _, _, _, _)
UninitMove(m, sb, s0, n, db, d0, i) ==
    IF i = n THEN m
    ELSE LET t == TryMove(m) IN
         IF t.exc THEN DestroyN(t, db, d0, i)
         ELSE UninitMove(Wr(Wr(t, db, d0 + i, Rd(t, sb, s0 + i)), sb, s0 + i, MovedFrom),
                         sb, s0, n, db, d0, i + 1)

\* std::uninitialized_value_construct_n
RECURSIVE ValueConstructN(_, _, _, _, _)
ValueConstructN(m, b, o, n, i) ==
    IF i = n THEN m
    ELSE LET t == Try(m) IN
         IF t.exc THEN DestroyN(t, b, o, i)
         ELSE ValueConstructN(Wr(t, b, o + i, DefaultVal), b, o, n, i + 1)

\* *dst = std::move(*src) inside one block
MoveAssign(m, b, src, dst) ==
    LET t == TryMove(m) IN
    IF t.exc THEN t
    ELSE Wr(Wr(t, b, dst, Rd(t, b, src)), b, src, MovedFrom)

\* std::move(first, last, d_first): front to back, no rollback
RECURSIVE MoveForward(_, _, _, _, _)
MoveForward(m, b, first, lst, dfirst) ==
    IF first >= lst THEN m
    ELSE LET t == MoveAssign(m, b, first, dfirst) IN
         IF t.exc THEN t
         ELSE MoveForward(t, b, first + 1, lst, dfirst + 1)

\* A shift of an overlapping range made front to back: each element is
\* overwritten before it is moved.
MoveBackwardFrontToBack(m, b, first, lst, dlast) ==
    MoveForward(m, b, first, lst, dlast - (lst - first))

\* std::move_backward(first, last, d_last): back to front, no rollback
RECURSIVE MoveBackward(_, _, _, _, _)
MoveBackward(m, b, first, lst, dlast) ==
    IF first >= lst THEN m
    ELSE LET t == MoveAssign(m, b, lst - 1, dlast - 1) IN
         IF t.exc THEN t
         ELSE MoveBackward(t, b, first, lst - 1, dlast - 1)

\* --------------------------------------------------------------- Vector
NoVector == [alive |-> FALSE, data |-> NullArena, size |-> 0]

Buf(m, v) == m.v[v].data.buf
Cap(m, v) == m.v[v].data.cap
Size(m, v) == m.v[v].size

\* if constexpr (is_nothrow_move_constructible_v<T> || !is_copy_constructible_v<T>)
UseMove(m) == m.T.nothrowMove \/ ~m.T.copyable

\* A relocation whose move loop starts at the second element.
RelocateMoveSkipsFirst(m, v, s0, n, d0) ==
    LET r == IF UseMove(m)
             THEN UninitMove(m, Buf(m, v), s0, n, m.tmp.buf, d0, Min(1, n))
             ELSE UninitCopy(m, Buf(m, v), s0, n, m.tmp.buf, d0, 0)
    IN IF r.exc THEN r ELSE [r EXCEPT !.reloc = @ + n]

\* uninitialized_move_n or uninitialized_copy_n from this container's arena
\* into the local arena, as the element type decides.
Relocate(m, v, s0, n, d0) ==
    LET r == IF UseMove(m) THEN UninitMove(m, Buf(m, v), s0, n, m.tmp.buf, d0, 0)
             ELSE UninitCopy(m, Buf(m, v), s0, n, m.tmp.buf, d0, 0)
    IN IF r.exc THEN r ELSE [r EXCEPT !.reloc = @ + n]

FillNewData(m, v, pos) == Relocate(m, v, 0, pos, 0)

\* The tail every growth shares: destroy the old objects, swap the arenas,
\* and the local arena, now the old one, is released as it goes out of scope.
AdoptNewData(m, v) ==
    RawMemoryDtor(RawMemorySwap(DestroyN(m, Buf(m, v), 0, Size(m, v)), v))

\* Reserve comparing with the size instead of the capacity.
ReserveComparesSize(m, v, n) ==
    IF n <= Size(m, v) THEN m
    ELSE LET a == RawMemoryCtor(m, n) IN
         IF a.exc THEN a
         ELSE LET r == FillNewData(a, v, Size(a, v)) IN
              IF r.exc THEN RawMemoryDtor(r)
              ELSE AdoptNewData(r, v)

\* Reserve comparing with < instead of <=: Reserve(capacity) reallocates.
ReserveStrictCompare(m, v, n) ==
    IF n < Cap(m, v) THEN m
    ELSE LET a == RawMemoryCtor(m, n) IN
         IF a.exc THEN a
         ELSE LET r == FillNewData(a, v, Size(a, v)) IN
              IF r.exc THEN RawMemoryDtor(r)
              ELSE AdoptNewData(r, v)

Reserve(m, v, n) ==
    IF n <= Cap(m, v) THEN m
    ELSE LET a == RawMemoryCtor(m, n) IN
         IF a.exc THEN a
         ELSE LET r == FillNewData(a, v, Size(a, v)) IN
              IF r.exc THEN RawMemoryDtor(r)
              ELSE AdoptNewData(r, v)

\* Growth to the size asked for, with no doubling.
ResizeCapacityExact(cap, n) == n

ResizeCapacity(cap, n) == Max(cap * 2, n)

\* Resize value-constructing from begin() instead of end().
ResizeFromBegin(m, v, n) ==
    IF n < Size(m, v)
    THEN [DestroyN(m, Buf(m, v), n, Size(m, v) - n) EXCEPT !.v[v].size = n]
    ELSE LET g == IF n > Cap(m, v) THEN Reserve(m, v, ResizeCapacity(Cap(m, v), n))
                  ELSE m
         IN IF g.exc THEN g
            ELSE LET c == ValueConstructN(g, Buf(g, v), 0, n - Size(g, v), 0) IN
                 IF c.exc THEN c ELSE [c EXCEPT !.v[v].size = n]

Resize(m, v, n) ==
    IF n < Size(m, v)
    THEN [DestroyN(m, Buf(m, v), n, Size(m, v) - n) EXCEPT !.v[v].size = n]
    ELSE LET g == IF n > Cap(m, v) THEN Reserve(m, v, ResizeCapacity(Cap(m, v), n))
                  ELSE m
         IN IF g.exc THEN g
            ELSE LET c == ValueConstructN(g, Buf(g, v), Size(g, v), n - Size(g, v), 0) IN
                 IF c.exc THEN c ELSE [c EXCEPT !.v[v].size = n]

\* PopBack without --size_.
PopBackKeepsSize(m, v) == DestroyN(m, Buf(m, v), Size(m, v) - 1, 1)

PopBack(m, v) ==
    [DestroyN(m, Buf(m, v), Size(m, v) - 1, 1) EXCEPT !.v[v].size = @ - 1]

\* Erase shifting from one slot too far: the element after pos goes.
EraseNextElement(m, v, pos) ==
    LET s == MoveForward(m, Buf(m, v), pos + 2, Size(m, v), pos + 1) IN
    IF s.exc THEN s
    ELSE [PopBack(s, v) EXCEPT !.ret = [buf |-> Buf(s, v), off |-> pos]]

Erase(m, v, pos) ==
    LET s == MoveForward(m, Buf(m, v), pos + 1, Size(m, v), pos) IN
    IF s.exc THEN s
    ELSE [PopBack(s, v) EXCEPT !.ret = [buf |-> Buf(s, v), off |-> pos]]

\* catch (...) { operator delete (end()); throw; }: end() is the block's own
\* address when the container is empty, which releases the block the
\* container goes on owning, and an address inside the block otherwise.
DeleteEnd(m, v) ==
    IF m.fault # "none" THEN m
    ELSE IF Size(m, v) # 0 THEN [m EXCEPT !.fault = "invalid_free"]
    ELSE IF m.h[Buf(m, v)].st = "live"
         THEN [m EXCEPT !.h[Buf(m, v)].st = "freed", !.fault = "released_owned_block"]
         ELSE [m EXCEPT !.fault = "double_free"]

InsertWithRelocationTry(m, v, pos, x) ==
    LET b == Buf(m, v)
        n == Size(m, v)
    IN IF pos # n
       THEN LET t == Try(m) IN                       \* T temporary_obj(args...)
            IF t.exc THEN t
            ELSE LET u == UninitMove(t, b, n - 1, 1, b, n, 0) IN
                 IF u.exc THEN u
                 ELSE LET w == MoveBackward(OffsetAssert(u, v, pos), b, pos, n - 1, n) IN
                      IF w.exc THEN w
                      ELSE LET a == TryMove(IndexAssert(w, v, pos)) IN
                           IF a.exc THEN a ELSE Wr(a, b, pos, x)  \* data_[pos] = move(tmp)
       ELSE LET t == Try(m) IN                       \* new (end()) T(args...)
            IF t.exc THEN t ELSE Wr(t, b, n, x)

InsertWithRelocation(m, v, pos, x) ==
    LET r == InsertWithRelocationTry(m, v, pos, x) IN
    IF r.exc THEN DeleteEnd(r, v) ELSE r

\* Growth by a fixed step of two slots.
GrowthCapacityByTwo(size) == size + 2

\* Growth by one slot instead of doubling.
GrowthCapacityByOne(size) == size + 1

GrowthCapacity(size) == IF size = 0 THEN 1 ELSE size * 2

InsertWithoutRelocation(m, v, pos, x) ==
    LET a == RawMemoryCtor(m, GrowthCapacity(Size(m, v))) IN
    IF a.exc THEN a
    ELSE LET t == Try(a) IN                          \* new (new_data + pos) T(args...)
         IF t.exc THEN RawMemoryDtor(t)
         ELSE LET c == Wr(t, t.tmp.buf, pos, x)
                  p == FillNewData(c, v, pos)
              IN IF p.exc THEN RawMemoryDtor(p)
                 ELSE LET q == Relocate(p, v, pos, Size(p, v) - pos, pos + 1) IN
                      IF q.exc THEN RawMemoryDtor(q)
                      ELSE AdoptNewData(q, v)

Emplace(m, v, pos, x) ==
    LET r == IF Size(m, v) = Cap(m, v) THEN InsertWithoutRelocation(m, v, pos, x)
             ELSE InsertWithRelocation(m, v, pos, x)
    IN IF r.exc THEN r
       ELSE [r EXCEPT !.v[v].size = @ + 1, !.ret = [buf |-> Buf(r, v), off |-> pos]]

\* Vector::Swap
Swap(m, v, w) ==
    [m EXCEPT !.v[v].data = m.v[w].data, !.v[w].data = m.v[v].data,
              !.v[v].size = m.v[w].size, !.v[w].size = m.v[v].size]

\* ~Vector(): destroy the live objects, then the arena releases the block.
VectorDtor(m, v) ==
    [Deallocate(DestroyN(m, Buf(m, v), 0, Size(m, v)), Buf(m, v)) EXCEPT !.v[v] = NoVector]

\* Vector(): empty, capacity 0
DefaultCtor(m, v) == [m EXCEPT !.v[v] = [alive |-> TRUE, data |-> NullArena, size |-> 0]]

\* explicit Vector(size_t size)
SizedCtor(m, v, n) ==
    LET a == RawMemoryCtor(m, n) IN
    IF a.exc THEN a
    ELSE LET c == ValueConstructN(a, a.tmp.buf, 0, n, 0) IN
         IF c.exc THEN RawMemoryDtor(c)
         ELSE [c EXCEPT !.v[v] = [alive |-> TRUE, data |-> c.tmp, size |-> n],
                        !.tmp = NullArena]

\* A copy that takes the source's arena instead of allocating its own.
CopyCtorShallow(m, v, w) ==
    [m EXCEPT !.v[v] = [alive |-> TRUE, data |-> m.v[w].data, size |-> Size(m, w)]]

\* Vector(const Vector& other)
CopyCtor(m, v, w) ==
    LET a == RawMemoryCtor(m, Size(m, w)) IN
    IF a.exc THEN a
    ELSE LET c == UninitCopy(a, Buf(a, w), 0, Size(a, w), a.tmp.buf, 0, 0) IN
         IF c.exc THEN RawMemoryDtor(c)
         ELSE [c EXCEPT !.v[v] = [alive |-> TRUE, data |-> c.tmp, size |-> Size(c, w)],
                        !.tmp = NullArena]

\* A move constructor without std::exchange(other.size_, 0).
MoveCtorKeepsSize(m, v, w) ==
    [m EXCEPT !.v[v] = [alive |-> TRUE, data |-> m.v[w].data, size |-> m.v[w].size],
              !.v[w].data = NullArena]

\* A move constructor that copies the arena's pointer and leaves the source's.
MoveCtorLeavesArena(m, v, w) ==
    [m EXCEPT !.v[v] = [alive |-> TRUE, data |-> m.v[w].data, size |-> m.v[w].size],
              !.v[w].size = 0]

\* Vector(Vector&& other) noexcept, with RawMemory(RawMemory&&)
MoveCtor(m, v, w) ==
    LET d == RawMemoryMoveCtor(m.v[w].data) IN
    [m EXCEPT !.v[v] = [alive |-> TRUE, data |-> d.self, size |-> m.v[w].size],
              !.v[w].data = d.rhs, !.v[w].size = 0]

\* The prefix assigned from the container itself: data_[pos] = data_[pos].
RECURSIVE AssignPrefixFromSelf(_, _, _, _, _)
AssignPrefixFromSelf(m, v, w, pos, n) ==
    IF pos >= n THEN m
    ELSE LET t == Try(m) IN
         IF t.exc THEN t
         ELSE AssignPrefixFromSelf(Wr(t, Buf(t, v), pos, Rd(t, Buf(t, v), pos)),
                                   v, w, pos + 1, n)

\* data_[pos] = rhs.data_[pos] for pos below both sizes
RECURSIVE AssignPrefix(_, _, _, _, _)
AssignPrefix(m, v, w, pos, n) ==
    IF pos >= n THEN m
    ELSE LET t == Try(IndexAssert(IndexAssert(m, w, pos), v, pos)) IN
         IF t.exc THEN t
         ELSE AssignPrefix(Wr(Touch(t, Buf(t, w)), Buf(t, v), pos, Rd(t, Buf(t, w), pos)),
                           v, w, pos + 1, n)

\* Vector& operator=(const Vector& rhs); the temporary copied_rhs is built in
\* the local arena, and after Swap its destructor takes the old contents.
CopyAssign(m, v, w) ==
    IF v = w THEN m
    ELSE IF Size(m, w) > Cap(m, v)
    THEN LET a == RawMemoryCtor(m, Size(m, w)) IN
         IF a.exc THEN a
         ELSE LET c == UninitCopy(a, Buf(a, w), 0, Size(a, w), a.tmp.buf, 0, 0) IN
              IF c.exc THEN RawMemoryDtor(c)
              ELSE [AdoptNewData(c, v) EXCEPT !.v[v].size = Size(c, w)]
    ELSE LET n == Min(Size(m, v), Size(m, w))
             p == AssignPrefix(m, v, w, 0, n)
         IN IF p.exc THEN p
            ELSE IF Size(p, v) > Size(p, w)
            THEN [DestroyN(IndexAssert(p, v, Size(p, w)), Buf(p, v), Size(p, w),
                           Size(p, v) - Size(p, w))
                    EXCEPT !.v[v].size = Size(p, w)]
            ELSE LET i == IndexAssert(IndexAssert(p, w, n), v, n)
                     c == UninitCopy(i, Buf(i, w), n, Size(i, w) - Size(i, v), Buf(i, v), n, 0)
                 IN IF c.exc THEN c ELSE [c EXCEPT !.v[v].size = Size(c, w)]

\* Vector& operator=(Vector&& rhs) noexcept
MoveAssignVector(m, v, w) == IF v = w THEN m ELSE Swap(m, v, w)

\* -------------------------------------------------------------- actions
FreeHeap == [b \in Blocks |-> [st |-> "free", slots |-> <<>>]]

\* What the last call was: the operation, the container it was called on,
\* its argument (the position of Emplace and Erase, the n of Reserve, Resize
\* and Vector(n)), the value Emplace was given, whether it returned (ok) or
\* threw, the undefined behaviour it met, whether it abandoned constructed
\* objects, whether it replaced the arena.
NoLast ==
    [op |-> "none", v |-> "a", arg |-> 0, val |-> 0, ok |-> TRUE, fault |-> "none",
     leak |-> FALSE, grew |-> FALSE]

Label(op, v, arg, val) == [NoLast EXCEPT !.op = op, !.v = v, !.arg = arg, !.val = val]

\* The element types: a move that cannot throw and a copy (the usual value
\* type), a move that may throw and a copy (relocated by copy), a move that
\* may throw and no copy (relocated by move all the same).  A move-only type
\* whose move cannot throw takes the paths of the first.
ElemTypes ==
    {[nothrowMove |-> TRUE, copyable |-> TRUE],
     [nothrowMove |-> FALSE, copyable |-> TRUE],
     [nothrowMove |-> FALSE, copyable |-> FALSE]}

\* T is fixed for a run.  a is default-constructed, b does not exist yet.
Init ==
    /\ heap = FreeHeap
    /\ vec = [v \in Vecs |-> IF v = "a" THEN [NoVector EXCEPT !.alive = TRUE] ELSE NoVector]
    /\ T \in ElemTypes
    /\ last = NoLast
    /\ halted = FALSE

\* Undefined behaviour: releasing an address that is no block or a block
\* already released, touching released storage, and an index past the arena
\* (the assert of RawMemory::operator[]).
CrashFaults == {"invalid_free", "double_free", "use_after_free", "assert"}

\* A block's number is its identity and nothing more: when a call is over the
\* blocks in use are renumbered 1, 2, ... (the block of a, then the block of
\* b, then any other), so that states differing only in the numbering are
\* one state.
OwnerRank(r, b) ==
    IF r.v["a"].data.buf = b THEN 0 ELSE IF r.v["b"].data.buf = b THEN 1 ELSE 2

CanonId(r, b) ==
    IF b = NullBlock THEN NullBlock
    ELSE Cardinality({c \in Blocks :
            /\ r.h[c].st # "free"
            /\ \/ OwnerRank(r, c) < OwnerRank(r, b)
               \/ OwnerRank(r, c) = OwnerRank(r, b) /\ c <= b})

CanonHeap(r) ==
    [n \in Blocks |->
        IF \E b \in Blocks : r.h[b].st # "free" /\ CanonId(r, b) = n
        THEN r.h[CHOOSE b \in Blocks : r.h[b].st # "free" /\ CanonId(r, b) = n]
        ELSE [st |-> "free", slots |-> <<>>]]

\* The failure points of a call: none, or any of the operations able to
\* throw that the call makes when nothing throws.
FailPts(r) == 0..r.k

\* The call returns or throws.  A call that met undefined behaviour has one of
\* two outcomes: the process is ended on the spot (the allocator's check of
\* the address, the assert of a build with asserts), which leaves no
\* container, or the call goes on as written.  What the program does after
\* undefined behaviour is not defined: the run is followed no further.
Commit(r, lbl) ==
    /\ \E c \in (IF r.fault \in CrashFaults THEN BOOLEAN ELSE {FALSE}) :
          /\ halted' = (r.fault \in CrashFaults)
          /\ heap' = IF c THEN FreeHeap ELSE CanonHeap(r)
          /\ vec' = IF c THEN [v \in Vecs |-> NoVector]
                    ELSE [v \in Vecs |-> [r.v[v] EXCEPT !.data.buf = CanonId(r, r.v[v].data.buf)]]
          /\ last' = [lbl EXCEPT !.ok = ~r.exc /\ ~c, !.fault = r.fault, !.leak = r.leak,
                                 !.grew = r.grew]
    /\ UNCHANGED T

Others(v) == Vecs \ {v}
Alive(v) == ~halted /\ vec[v].alive

\* The capacity a container may be driven to: MaxCap alone, PairCap in company.
CapLimit(v) == IF \E w \in Others(v) : vec[w].alive THEN PairCap ELSE MaxCap
CanCreate(v) ==
    /\ ~halted /\ ~vec[v].alive /\ (v = "b" => vec["a"].alive)
    /\ \A w \in Others(v) : vec[w].data.cap <= PairCap

DefaultCtorAct(v) ==
    /\ CanCreate(v)
    /\ Commit(DefaultCtor(Begin(0), v), Label("DefaultCtor", v, 0, 0))

SizedCtorAct(v, n) ==
    /\ CanCreate(v) /\ n <= CapLimit(v)
    /\ \E f \in FailPts(SizedCtor(Begin(0), v, n)) :
          Commit(SizedCtor(Begin(f), v, n), Label("SizedCtor", v, n, 0))

CopyCtorPre(v, w) == CanCreate(v) /\ Alive(w) /\ v # w /\ T.copyable

CopyCtorAct(v, w) ==
    /\ CopyCtorPre(v, w)
    /\ \E f \in FailPts(CopyCtor(Begin(0), v, w)) :
          Commit(CopyCtor(Begin(f), v, w), Label("CopyCtor", v, 0, 0))

MoveCtorPre(v, w) == CanCreate(v) /\ Alive(w) /\ v # w

MoveCtorAct(v, w) ==
    /\ MoveCtorPre(v, w)
    /\ Commit(MoveCtor(Begin(0), v, w), Label("MoveCtor", v, 0, 0))

\* b lives in a scope inside a's: it is destroyed before a is.
DtorAct(v) ==
    /\ Alive(v) /\ (v = "a" => ~vec["b"].alive)
    /\ Commit(VectorDtor(Begin(0), v), Label("Dtor", v, 0, 0))

CopyAssignAct(v, w) ==
    /\ Alive(v) /\ Alive(w) /\ T.copyable
    /\ \E f \in FailPts(CopyAssign(Begin(0), v, w)) :
          Commit(CopyAssign(Begin(f), v, w), Label("CopyAssign", v, 0, 0))

MoveAssignAct(v, w) ==
    /\ Alive(v) /\ Alive(w)
    /\ Commit(MoveAssignVector(Begin(0), v, w), Label("MoveAssign", v, 0, 0))

SwapAct(v, w) ==
    /\ Alive(v) /\ Alive(w) /\ v # w
    /\ Commit(Swap(Begin(0), v, w), Label("Swap", v, 0, 0))

ReservePre(v, n) == Alive(v) /\ n <= CapLimit(v)

ReserveAct(v, n) ==
    /\ ReservePre(v, n)
    /\ \E f \in FailPts(Reserve(Begin(0), v, n)) :
          Commit(Reserve(Begin(f), v, n), Label("Reserve", v, n, 0))

ResizePre(v, n) ==
    /\ Alive(v) /\ n <= CapLimit(v)
    /\ n > vec[v].data.cap => ResizeCapacity(vec[v].data.cap, n) <= CapLimit(v)

ResizeAct(v, n) ==
    /\ ResizePre(v, n)
    /\ \E f \in FailPts(Resize(Begin(0), v, n)) :
          Commit(Resize(Begin(f), v, n), Label("Resize", v, n, 0))

\* Emplace, and through it Insert, EmplaceBack and PushBack (pos = size)
EmplacePre(v, pos) ==
    /\ Alive(v) /\ pos <= vec[v].size
    /\ vec[v].size = vec[v].data.cap => GrowthCapacity(vec[v].size) <= CapLimit(v)

EmplaceAct(v, pos, x) ==
    /\ EmplacePre(v, pos)
    /\ \E f \in FailPts(Emplace(Begin(0), v, pos, x)) :
          Commit(Emplace(Begin(f), v, pos, x), Label("Emplace", v, pos, x))

\* assert(size_)
PopBackPre(v) == Alive(v) /\ vec[v].size > 0

PopBackAct(v) ==
    /\ PopBackPre(v)
    /\ Commit(PopBack(Begin(0), v), Label("PopBack", v, 0, 0))

\* assert(pos >= cbegin() && pos < cend())
ErasePre(v, pos) == Alive(v) /\ pos < vec[v].size

EraseAct(v, pos) ==
    /\ ErasePre(v, pos)
    /\ \E f \in FailPts(Erase(Begin(0), v, pos)) :
          Commit(Erase(Begin(f), v, pos), Label("Erase", v, pos, 0))

Next ==
    \E v \in Vecs :
        \/ DefaultCtorAct(v)
        \/ DtorAct(v)
        \/ PopBackAct(v)
        \/ \E w \in Others(v) : MoveCtorAct(v, w)
        \/ \E w \in Others(v) : SwapAct(v, w)
        \/ \E w \in Others(v) : CopyCtorAct(v, w)
        \/ \E w \in Vecs : MoveAssignAct(v, w)
        \/ \E w \in Vecs : CopyAssignAct(v, w)
        \/ \E n \in 0..CapLimit(v) : SizedCtorAct(v, n)
        \/ \E n \in 0..CapLimit(v) : ReserveAct(v, n)
        \/ \E n \in 0..CapLimit(v) : ResizeAct(v, n)
        \/ \E pos \in 0..vec[v].size : EraseAct(v, pos)
        \/ \E pos \in 0..vec[v].size, x \in Elem : EmplaceAct(v, pos, x)

Spec == Init /\ [][Next]_vars

\* ------------------------------------------------------- reading a state
\* The state as a call finds it, and a call made on the result of another.
Now == Begin(0)
Then(r) == [r EXCEPT !.k = 0, !.f = 0]

\* The elements of container v, first to last, in the heap of r.
ElemsOf(r, v) == [i \in 1..Size(r, v) |-> r.h[Buf(r, v)].slots[i]]
Elems(v) == ElemsOf(Now, v)

\* The slots of v's arena that hold a constructed object.
Constructed(v) ==
    {i \in 0..(vec[v].data.cap - 1) : heap[vec[v].data.buf].slots[i + 1] # Uninit}

InsertAt(s, p, x) == SubSeq(s, 1, p) \o <<x>> \o SubSeq(s, p + 1, Len(s))
RemoveAt(s, p) == SubSeq(s, 1, p) \o SubSeq(s, p + 2, Len(s))

TypeOK ==
    /\ \A b \in Blocks : heap[b].st \in {"free", "live", "freed"}
    /\ \A v \in Vecs : vec[v].size \in 0..MaxCap /\ vec[v].data.cap \in 0..MaxCap
    /\ \A v \in Vecs : vec[v].data.buf # NullBlock =>
            Len(heap[vec[v].data.buf].slots) = vec[v].data.cap

\* ------------------------------------------------------------------ C1
\* C1: whatever the calls made so far and whether they returned or threw,
\* every container has 0 <= size <= capacity.
C1_SizeWithinCapacity ==
    \A v \in Vecs : vec[v].alive => 0 <= vec[v].size /\ vec[v].size <= vec[v].data.cap

\* A full container on which the last call threw.
C1_Witness ==
    \E v \in Vecs :
        /\ vec[v].alive /\ ~last.ok /\ last.v = v /\ ~halted
        /\ last.op \in {"Emplace", "Resize"}
        /\ vec[v].size = vec[v].data.cap /\ vec[v].size >= 2

\* ------------------------------------------------------------------ C2
\* C2: in every container exactly the slots [0, size) hold a constructed
\* object and the slots [size, capacity) are uninitialized, also after a call
\* that threw partway.
C2_LiveSlotsAreThePrefix ==
    \A v \in Vecs : vec[v].alive => Constructed(v) = 0..(vec[v].size - 1)

\* Apart from a call that has just run into undefined behaviour, it holds.
C2_HoldsWithoutUB == halted \/ C2_LiveSlotsAreThePrefix

\* ------------------------------------------------------------------ C3
\* C3: in every reachable state, for every container, position p in
\* [0, size] and value x, an Emplace(p, x) that returns leaves the sequence
\* s[0..p) ++ [x] ++ s[p..size) of size + 1 elements, whether it inserts in
\* place or into a new arena, by move or by copy.
C3_InsertAtPosition ==
    \A v \in Vecs, pos \in 0..MaxCap, x \in Elem :
        EmplacePre(v, pos) =>
            LET r == Emplace(Now, v, pos, x) IN
            /\ ~r.exc
            /\ Size(r, v) = vec[v].size + 1
            /\ ElemsOf(r, v) = InsertAt(Elems(v), pos, x)

\* An insert at the front that shifted two elements in place has returned,
\* for a type whose moves may throw.
C3_Witness ==
    /\ last.op = "Emplace" /\ last.ok /\ ~last.grew /\ last.fault = "none"
    /\ last.arg = 0 /\ last.val = 1
    /\ vec[last.v].size = 3 /\ Elems(last.v) = <<1, 0, 1>>
    /\ ~T.nothrowMove

\* ------------------------------------------------------------------ C4
\* C4: in every reachable state, for every container and position p in
\* [0, size), an Erase(p) that returns leaves s[0..p) ++ s[p+1..size), one
\* element fewer, the same capacity and arena, and returns the position p.
C4_EraseAtPosition ==
    \A v \in Vecs, pos \in 0..MaxCap :
        ErasePre(v, pos) =>
            LET r == Erase(Now, v, pos) IN
            /\ ~r.exc
            /\ ElemsOf(r, v) = RemoveAt(Elems(v), pos)
            /\ Size(r, v) = vec[v].size - 1
            /\ r.v[v].data = vec[v].data
            /\ r.ret = [buf |-> vec[v].data.buf, off |-> pos]

\* An erase at the front of four elements has returned.
C4_Witness ==
    /\ last.op = "Erase" /\ last.ok /\ last.fault = "none" /\ last.arg = 0
    /\ vec[last.v].size = 3 /\ Elems(last.v) = <<0, 1, 1>>

\* ------------------------------------------------------------------ C5
\* C5: in every reachable state, for every container, position p in
\* [0, size] and value x, Emplace(p, x) followed by Erase(p) gives back the
\* sequence and the size there were.
C5_InsertEraseRoundTrip ==
    \A v \in Vecs, pos \in 0..MaxCap, x \in Elem :
        EmplacePre(v, pos) =>
            LET r == Emplace(Now, v, pos, x)
                e == Erase(Then(r), v, pos)
            IN /\ ~r.exc /\ ~e.exc
               /\ Size(e, v) = vec[v].size
               /\ ElemsOf(e, v) = Elems(v)

\* An erase at position 1 has returned on a container of two different
\* elements whose arena has room for an insert made in place before it.
C5_Witness ==
    /\ last.op = "Erase" /\ last.ok /\ last.fault = "none" /\ last.arg = 1
    /\ Elems(last.v) = <<1, 0>> /\ vec[last.v].data.cap = 4

\* ------------------------------------------------------------------ C6
\* C6: in every reachable state, for every container and n, a Resize(n) that
\* returns leaves size n, the elements below min(old size, n) as they were,
\* and a value-initialized element at every index in [old size, n).
C6_Resize ==
    \A v \in Vecs, n \in 0..MaxCap :
        ResizePre(v, n) =>
            LET r == Resize(Now, v, n) IN
            /\ ~r.exc
            /\ Size(r, v) = n
            /\ \A i \in 1..Min(vec[v].size, n) : ElemsOf(r, v)[i] = Elems(v)[i]
            /\ \A i \in (vec[v].size + 1)..n : ElemsOf(r, v)[i] = DefaultVal

\* A Resize has returned that grew the container past its capacity and kept
\* an element that is not the default.
C6_Witness ==
    /\ last.op = "Resize" /\ last.ok /\ last.grew /\ last.fault = "none" /\ last.arg = 3
    /\ Elems(last.v) = <<1, 0, 0>>

\* ------------------------------------------------------------------ C7
\* Every call on one container alone, at every failure point.
UnaryCalls(v) ==
    {Emplace(Begin(f), v, pos, x) :
        f \in 0..(MaxCap + 1), pos \in {p \in 0..MaxCap : EmplacePre(v, p)}, x \in Elem}
    \cup {Erase(Begin(f), v, pos) :
        f \in 0..(MaxCap + 1), pos \in {p \in 0..MaxCap : ErasePre(v, p)}}
    \cup {Resize(Begin(f), v, n) :
        f \in 0..(MaxCap + 1), n \in {k \in 0..MaxCap : ResizePre(v, k)}}
    \cup {Reserve(Begin(f), v, n) :
        f \in 0..(MaxCap + 1), n \in {k \in 0..MaxCap : ReservePre(v, k)}}
    \cup {PopBack(Now, v) : u \in {w \in {v} : PopBackPre(w)}}

\* C7: a copy constructed from a container of size k has size k, capacity k
\* and the same elements, and an arena of its own; and as long as two
\* containers live side by side their arenas are two, so that no call on the
\* one changes the size or the elements of the other.
C7_CopyIsIndependent ==
    /\ \A v \in Vecs, w \in Vecs :
          CopyCtorPre(v, w) =>
              LET r == CopyCtor(Now, v, w) IN
              /\ ~r.exc /\ r.v[v].alive
              /\ Size(r, v) = vec[w].size /\ Cap(r, v) = vec[w].size
              /\ ElemsOf(r, v) = Elems(w)
              /\ r.v[w] = vec[w] /\ ElemsOf(r, w) = Elems(w)
              /\ Buf(r, v) # NullBlock => Buf(r, v) # Buf(r, w)
    /\ \A v \in Vecs, w \in Vecs :
          (v # w /\ Alive(v) /\ Alive(w)) =>
              /\ vec[v].data.buf # NullBlock => vec[v].data.buf # vec[w].data.buf
              /\ \A r \in UnaryCalls(v) :
                    r.v[w] = vec[w] /\ ElemsOf(r, w) = Elems(w)

\* A copy of a container of two different elements has been constructed.
C7_Witness ==
    /\ last.op = "CopyCtor" /\ last.ok /\ last.v = "b"
    /\ Elems("b") = <<0, 1>> /\ Elems("a") = <<0, 1>>

\* ------------------------------------------------------------------ C8
\* C8: a container move-constructed from a source has the source's size,
\* capacity, arena and elements, the source is left with size 0, capacity 0
\* and no block, and no element is constructed, moved, copied or destroyed:
\* the heap is as it was.
C8_MoveConstruct ==
    \A v \in Vecs, w \in Vecs :
        MoveCtorPre(v, w) =>
            LET r == MoveCtor(Now, v, w) IN
            /\ ~r.exc /\ r.k = 0 /\ r.v[v].alive
            /\ r.v[w] = [alive |-> TRUE, data |-> NullArena, size |-> 0]
            /\ Size(r, v) = vec[w].size /\ r.v[v].data = vec[w].data
            /\ ElemsOf(r, v) = Elems(w)
            /\ r.h = heap

\* A container of two elements has been moved from.
C8_Witness ==
    /\ last.op = "MoveCtor" /\ last.ok /\ last.v = "b"
    /\ Elems("b") = <<1, 0>> /\ vec["a"].alive /\ vec["a"].data.cap = 0

\* ------------------------------------------------------------------ C9
\* C9: Reserve(n) with n <= capacity changes nothing and allocates nothing;
\* with n > capacity, when it returns, the capacity is n and the size and
\* the elements are as they were.  On an empty container of capacity 0,
\* Reserve(10) gives capacity 10 and size 0, and Reserve(5) after it leaves
\* the capacity at 10.
C9_Reserve ==
    \A v \in Vecs :
        /\ \A n \in 0..MaxCap :
              ReservePre(v, n) =>
                  LET r == Reserve(Now, v, n) IN
                  /\ ~r.exc
                  /\ n <= vec[v].data.cap => r.h = heap /\ r.v = vec /\ r.k = 0
                  /\ n > vec[v].data.cap =>
                        /\ Cap(r, v) = n /\ Len(r.h[Buf(r, v)].slots) = n
                        /\ Size(r, v) = vec[v].size
                        /\ ElemsOf(r, v) = Elems(v)
        /\ (Alive(v) /\ vec[v].data.cap = 0) =>
              LET r == Reserve(Now, v, 10)
                  q == Reserve(Then(r), v, 5)
              IN /\ Cap(r, v) = 10 /\ Size(r, v) = 0
                 /\ q.v = r.v /\ q.h = r.h /\ Cap(q, v) = 10

\* A Reserve has returned that moved two different elements to a new arena.
C9_Witness ==
    /\ last.op = "Reserve" /\ last.ok /\ last.grew /\ last.fault = "none" /\ last.arg = 3
    /\ Elems(last.v) = <<0, 1>> /\ vec[last.v].data.cap = 3

\* ----------------------------------------------------------------- C10
\* C10: an Emplace that returns on a container with size = capacity leaves
\* capacity 1 if it was 0 and twice the capacity otherwise; with
\* size < capacity it leaves the capacity, and the arena, as they were.  Three
\* appends to an empty container of capacity 0 go through the capacities 1,
\* 2 and 4 and leave the three values in the order appended.
C10_Growth ==
    \A v \in Vecs :
        /\ \A pos \in 0..MaxCap, x \in Elem :
              EmplacePre(v, pos) =>
                  LET r == Emplace(Now, v, pos, x)
                      c == vec[v].data.cap
                  IN /\ ~r.exc
                     /\ (vec[v].size = c /\ c = 0) => Cap(r, v) = 1
                     /\ (vec[v].size = c /\ c # 0) => Cap(r, v) = 2 * c
                     /\ vec[v].size = c => Len(r.h[Buf(r, v)].slots) = Cap(r, v)
                     /\ vec[v].size < c => r.v[v].data = vec[v].data
        /\ (Alive(v) /\ vec[v].data.cap = 0 /\ CapLimit(v) >= 4) =>
              \A x \in Elem, y \in Elem, z \in Elem :
                  LET r1 == Emplace(Now, v, 0, x)
                      r2 == Emplace(Then(r1), v, 1, y)
                      r3 == Emplace(Then(r2), v, 2, z)
                  IN /\ Cap(r1, v) = 1 /\ Cap(r2, v) = 2 /\ Cap(r3, v) = 4
                     /\ Size(r3, v) = 3 /\ ElemsOf(r3, v) = <<x, y, z>>

\* The third append has returned: capacity 4 reached by doubling, size 3.
C10_Witness ==
    /\ last.op = "Emplace" /\ last.ok /\ last.grew /\ last.fault = "none" /\ last.arg = 2
    /\ vec[last.v].size = 3 /\ vec[last.v].data.cap = 4

\* ----------------------------------------------------------------- C11
MaxAppends == 9      \* the longest run of appends counted

\* EmplaceBack n - i times over: Emplace(end(), x), the values alternating.
RECURSIVE Appends(_, _, _, _)
Appends(r, v, i, n) ==
    IF i = n \/ r.exc THEN r
    ELSE Appends(Emplace(Then(r), v, Size(r, v), i % (MaxVal + 1)), v, i + 1, n)

\* C11: N appends that return, made on an empty container of capacity 0,
\* relocate at most 2N elements into new arenas in all (by move or by copy);
\* and one append relocates the size elements when size = capacity and none
\* otherwise.
C11_LinearRelocations ==
    \A v \in Vecs :
        /\ (Alive(v) /\ vec[v].data.cap = 0) =>
              \A n \in 1..MaxAppends :
                  LET r == Appends(Now, v, 0, n) IN
                  /\ ~r.exc /\ r.fault = "none"
                  /\ Size(r, v) = n
                  /\ r.reloc <= 2 * n
        /\ EmplacePre(v, vec[v].size) =>
              LET r == Emplace(Now, v, vec[v].size, 0) IN
              r.reloc = IF vec[v].size = vec[v].data.cap THEN vec[v].size ELSE 0

\* The fourth append to a container that began empty has returned: it found
\* room in the arena the third append had doubled.
C11_Witness ==
    /\ last.op = "Emplace" /\ last.ok /\ ~last.grew /\ last.fault = "none" /\ last.arg = 3
    /\ vec[last.v].size = 4 /\ vec[last.v].data.cap = 4

\* ----------------------------------------------------------------- C12
\* Both containers live, on blocks that have not been released.
Sound(v) ==
    /\ Alive(v)
    /\ vec[v].data.buf # NullBlock => heap[vec[v].data.buf].st = "live"

CopyAssignPre(v, w) == Sound(v) /\ Sound(w) /\ v # w /\ T.copyable

\* C12: a copy-assign v = w (v and w distinct) that returns leaves v with
\* the size and the elements of w, and w as it was, in each of its three
\* cases: w.size > v.capacity (v gets a new arena of capacity w.size),
\* w.size < v.size and v.size <= w.size <= v.capacity (in these two v keeps
\* its arena and its capacity).
C12_CopyAssign ==
    \A v \in Vecs, w \in Vecs :
        CopyAssignPre(v, w) =>
            LET r == CopyAssign(Now, v, w) IN
            /\ ~r.exc /\ r.fault \in {"none", "assert"}
            /\ Size(r, v) = vec[w].size
            /\ ElemsOf(r, v) = Elems(w)
            /\ r.v[w] = vec[w] /\ ElemsOf(r, w) = Elems(w)
            /\ vec[w].size > vec[v].data.cap =>
                  Cap(r, v) = vec[w].size /\ Buf(r, v) # Buf(r, w)
            /\ vec[w].size <= vec[v].data.cap => r.v[v].data = vec[v].data

\* A copy-assign has returned that kept the arena, assigned the first element
\* and copy-constructed the second in place.
C12_Witness ==
    /\ last.op = "CopyAssign" /\ last.ok /\ ~last.grew /\ last.fault = "none"
    /\ vec[last.v].size = 2 /\ vec[last.v].data.cap = 2
    /\ Elems("a") = <<1, 0>> /\ Elems("b") = <<1, 0>>

\* ----------------------------------------------------------------- C13
\* C13: when a copy-assign v = w with w.size > v.capacity throws, at the
\* allocation or at any of the w.size copies, v has the size, the capacity,
\* the arena and the elements it had, w is unchanged, and the temporary's
\* block is released with no constructed object in it: the heap is as it was.
C13_CopyAssignStrong ==
    \A v \in Vecs, w \in Vecs :
        (CopyAssignPre(v, w) /\ vec[w].size > vec[v].data.cap) =>
            \A f \in 1..(vec[w].size + 1) :
                LET r == CopyAssign(Begin(f), v, w) IN
                /\ r.exc /\ r.fault = "none"
                /\ r.k = f
                /\ r.v = vec
                /\ ElemsOf(r, v) = Elems(v) /\ ElemsOf(r, w) = Elems(w)
                /\ r.h = heap
                /\ ~r.leak /\ r.tmp = NullArena

\* A copy-assign of two elements to a container of capacity 1 has thrown.
C13_Witness ==
    /\ last.op = "CopyAssign" /\ ~last.ok /\ last.fault = "none" /\ last.v = "a"
    /\ vec["a"].data.cap = 1 /\ Elems("a") = <<0>> /\ Elems("b") = <<1, 0>>

\* ----------------------------------------------------------------- C14
\* The failure points of Reserve's relocation into the new arena: the
\* allocation and, for a type whose relocation may throw, each element.
GrowthFailPts(v) == 1..(1 + (IF T.nothrowMove THEN 0 ELSE vec[v].size))

\* A call that threw rolled back: nothing constructed was abandoned in a
\* released block, the containers are as they were, and so is the heap, the
\* old arena's slots included.
RolledBack(r) ==
    /\ r.exc /\ r.fault = "none"
    /\ ~r.leak
    /\ r.v = vec
    /\ r.h = heap

\* C14: when an allocation or an element operation throws while a new arena
\* is being filled (Vector(n), Reserve, the reallocating step of Resize and
\* of Emplace), every object constructed in the new arena, the inserted
\* element included, is destroyed before the block is released, and the
\* container keeps its old arena, size and elements.  Stated for the element
\* types whose relocation leaves the source intact (a move that cannot throw,
\* or relocation by copy).
C14_GrowthFailureRollsBack ==
    (T.nothrowMove \/ T.copyable) =>
    \A v \in Vecs :
        /\ \A n \in 0..MaxCap :
              (CanCreate(v) /\ n <= CapLimit(v)) =>
                  \A f \in 1..n + 1 :
                      LET r == SizedCtor(Begin(f), v, n) IN r.exc => RolledBack(r)
        /\ \A n \in 0..MaxCap :
              (Sound(v) /\ ReservePre(v, n) /\ n > vec[v].data.cap) =>
                  \A f \in GrowthFailPts(v) : RolledBack(Reserve(Begin(f), v, n))
        /\ \A n \in 0..MaxCap :
              (Sound(v) /\ ResizePre(v, n) /\ n > vec[v].data.cap) =>
                  \A f \in GrowthFailPts(v) : RolledBack(Resize(Begin(f), v, n))
        /\ \A pos \in 0..MaxCap, x \in Elem :
              (Sound(v) /\ EmplacePre(v, pos) /\ vec[v].size = vec[v].data.cap) =>
                  \A f \in 1..(vec[v].size + 2) :
                      LET r == Emplace(Begin(f), v, pos, x) IN r.exc => RolledBack(r)

\* ----------------------------------------------------------------- C15
\* The containers that own block b.
Owners(b) == {v \in Vecs : vec[v].alive /\ vec[v].data.buf = b}

\* C15: no call releases a block, or an address inside a block, that a
\* container still owns, and no block is released twice: after every call,
\* returned or thrown, the block of every container is a block not yet
\* released, and every block not yet released has exactly one owner.
C15_BlocksReleasedOnce ==
    /\ last.fault \notin {"invalid_free", "double_free", "released_owned_block"}
    /\ \A v \in Vecs :
          (vec[v].alive /\ vec[v].data.buf # NullBlock) =>
              heap[vec[v].data.buf].st = "live"
    /\ \A b \in Blocks : heap[b].st # "freed"
    /\ \A b \in Blocks : heap[b].st = "live" => Cardinality(Owners(b)) = 1

\* ----------------------------------------------------------------- C16
\* C16: for any two arenas, the destination owning a block or not, after the
\* move-assign dst = std::move(src) the destination has the block and the
\* capacity the source had and the source has capacity 0 and no block; and
\* the same after the move-construction of an arena from src.  The arenas
\* are those of the two containers in every reachable state.
C16_ArenaMoveLeavesSourceEmpty ==
    \A v \in Vecs, w \in Vecs :
        (v # w /\ Sound(v) /\ Sound(w)) =>
            LET dst == vec[v].data
                src == vec[w].data
                a == RawMemoryMoveAssign(dst, src)
                c == RawMemoryMoveCtor(src)
            IN /\ c.self = src /\ c.rhs = NullArena
               /\ a.self = src
               /\ a.rhs = NullArena

\* ----------------------------------------------------------------- C17
\* The element type relocated by move and the one relocated by copy.
MovedType == [nothrowMove |-> TRUE, copyable |-> TRUE]
CopiedType == [nothrowMove |-> FALSE, copyable |-> TRUE]

Ops == {"SizedCtor", "CopyCtor", "CopyAssign", "Reserve", "Resize", "Emplace", "Erase",
        "PopBack"}

\* The preconditions of a call, whatever the element type.
OpPre(op, v, w, n, x) ==
    CASE op = "SizedCtor" -> CanCreate(v) /\ n <= CapLimit(v)
      [] op = "CopyCtor" -> CanCreate(v) /\ Sound(w) /\ v # w
      [] op = "CopyAssign" -> Sound(v) /\ Sound(w)
      [] op = "Reserve" -> Sound(v) /\ ReservePre(v, n)
      [] op = "Resize" -> Sound(v) /\ ResizePre(v, n)
      [] op = "Emplace" -> Sound(v) /\ EmplacePre(v, n)
      [] op = "Erase" -> Sound(v) /\ ErasePre(v, n)
      [] op = "PopBack" -> Sound(v) /\ PopBackPre(v)

\* The call op made on the call record m.
OpCall(m, op, v, w, n, x) ==
    CASE op = "SizedCtor" -> SizedCtor(m, v, n)
      [] op = "CopyCtor" -> CopyCtor(m, v, w)
      [] op = "CopyAssign" -> CopyAssign(m, v, w)
      [] op = "Reserve" -> Reserve(m, v, n)
      [] op = "Resize" -> Resize(m, v, n)
      [] op = "Emplace" -> Emplace(m, v, n, x)
      [] op = "Erase" -> Erase(m, v, n)
      [] op = "PopBack" -> PopBack(m, v)

\* The call made from the current state with elements of type t, nothing
\* throwing.
OpResult(t, op, v, w, n, x) == OpCall([Now EXCEPT !.T = t], op, v, w, n, x)

\* C17: from every reachable state, every call that returns leaves the same
\* sizes, capacities and element sequences whether the elements are of the
\* type relocated by move or of the type relocated by copy; the heap and the
\* iterator returned are the same too, so that two runs of the same calls
\* stay in step call after call.
C17_MoveAndCopyAgree ==
    \A op \in Ops, v \in Vecs, w \in Vecs, n \in 0..MaxCap, x \in Elem :
        OpPre(op, v, w, n, x) =>
            LET p == OpResult(MovedType, op, v, w, n, x)
                q == OpResult(CopiedType, op, v, w, n, x)
            IN /\ ~p.exc /\ ~q.exc
               /\ \A u \in Vecs :
                     /\ p.v[u].alive = q.v[u].alive
                     /\ Size(p, u) = Size(q, u) /\ Cap(p, u) = Cap(q, u)
                     /\ ElemsOf(p, u) = ElemsOf(q, u)
               /\ p.v = q.v /\ p.h = q.h /\ p.ret = q.ret
               /\ p.fault = q.fault /\ p.reloc = q.reloc

\* An insert in the middle of a full container of the type relocated by copy
\* has returned: both halves were copied into the new arena.
C17_Witness ==
    /\ T = CopiedType
    /\ last.op = "Emplace" /\ last.ok /\ last.grew /\ last.fault = "none"
    /\ last.arg = 1 /\ last.val = 1
    /\ vec[last.v].size = 3 /\ Elems(last.v) = <<0, 1, 1>>

\* ----------------------------------------------------------------- C18
\* C18: in every reachable state, every call made within its preconditions,
\* at every failure point, indexes the arenas only inside them: no
\* data_[i] with i >= capacity and no data_ + o with o > capacity, the
\* copy-assign of a container of the same size included.
C18_IndexingWithinArena ==
    \A op \in Ops, v \in Vecs, w \in Vecs, n \in 0..MaxCap, x \in Elem :
        (OpPre(op, v, w, n, x) /\ (op \in {"CopyCtor", "CopyAssign"} => T.copyable)) =>
            \A f \in 0..(MaxCap + 2) :
                OpCall(Begin(f), op, v, w, n, x).fault # "assert"

\* ----------------------------------------------------------------- C19
\* C19: a Resize(n) that returns with n > capacity leaves the capacity at
\* twice the old capacity when that is at least n and at n otherwise, in an
\* arena of that many slots; with n <= capacity, returning or throwing, it
\* leaves the arena and the capacity as they were.
C19_ResizeCapacity ==
    \A v \in Vecs, n \in 0..MaxCap :
        (Sound(v) /\ ResizePre(v, n)) =>
            LET c == vec[v].data.cap
                r == Resize(Now, v, n)
            IN /\ ~r.exc
               /\ n > c =>
                     /\ Cap(r, v) = (IF 2 * c >= n THEN 2 * c ELSE n)
                     /\ Len(r.h[Buf(r, v)].slots) = Cap(r, v)
                     /\ Buf(r, v) # NullBlock /\ r.grew
               /\ n <= c =>
                     \A f \in 0..n : Resize(Begin(f), v, n).v[v].data = vec[v].data

\* A Resize(3) has returned on a container that had capacity 2: the
\* capacity is 4, not 3.
C19_Witness ==
    /\ last.op = "Resize" /\ last.ok /\ last.grew /\ last.fault = "none" /\ last.arg = 3
    /\ vec[last.v].size = 3 /\ vec[last.v].data.cap = 4

\* ----------------------------------------------------------------- C20
\* C20: no call of Reserve, Resize, Emplace (Insert, EmplaceBack, PushBack),
\* PopBack, Erase or copy-assign, returning or throwing, lowers the capacity
\* of a container: over every step, a container that lives before and after
\* has a smaller capacity only when the step is a move construction (from
\* it), a move-assign or a Swap.
C20_CapacityNeverDecreases ==
    [][\A v \in Vecs :
          (vec[v].alive /\ vec'[v].alive /\ vec'[v].data.cap < vec[v].data.cap) =>
              last'.op \in {"MoveCtor", "MoveAssign", "Swap"}]_vars

\* A PopBack has emptied a container whose capacity is still 4.
C20_Witness ==
    /\ last.op = "PopBack" /\ last.ok /\ last.fault = "none"
    /\ vec[last.v].size = 0 /\ vec[last.v].data.cap = 4

====
